---------------------------- MODULE Spec2Model ----------------------------
(***************************************************************************)
(* Model of split_geo.py: a region quadtree (class QTNode) that is filled  *)
(* point by point with add and then enumerated with write_leaves.          *)
(*                                                                         *)
(* The heap of QTNode objects is the function `tree`: it maps the address  *)
(* of every object that has been constructed to the record of its fields.  *)
(* An address is the sequence of attribute names that leads from the root  *)
(* object to the object (<<>> is the root, <<"upper_right">> the object    *)
(* stored in root.upper_right, ...).  The attribute value None is the      *)
(* address None.                                                           *)
(*                                                                         *)
(* Coordinates are degrees multiplied by Scale (a power of two), so that   *)
(* every midpoint (min+max)/2 the program computes down to the depth the   *)
(* model reaches is an integer and the float division by 2 is exact.       *)
(*                                                                         *)
(* The interpreter ends a recursion that is too deep with RecursionError:  *)
(* CPython 3.11 allows 1000 levels, a call of a Python function takes one  *)
(* and the construction of an object two.  A tree level costs three frames *)
(* when a cascading split passes it (add, split, add_2_child) and two when *)
(* an add is delegated through an internal node (add, add_2_child), so the *)
(* level on which a split fails depends on the path; a cascade that starts *)
(* at the root fails on level 332.  The model scales the limit down so     *)
(* that such a cascade fails on level MaxDepth.                            *)
(***************************************************************************)
EXTENDS Integers, Sequences, FiniteSets, TLC

RECURSIVE add(_, _, _, _)
RECURSIVE add_2_child(_, _, _, _)
RECURSIVE split(_, _, _)
RECURSIVE split_members(_, _, _, _)
RECURSIVE write_leaves(_, _, _)
RECURSIVE Pow2(_)

\* ------------------------------------------------------------------ bounds
\* The level on which the split of a cascade that starts at the root exhausts
\* the call stack (332 with the interpreter's limit of 1000).
MaxDepth == 5

\* Largest number of points the driver feeds to the root.
MaxPoints == 3

\* Largest capacity (max_nodes argument) tried.
MaxCapacity == 2

Pow2(n) == IF n = 0 THEN 1 ELSE 2 * Pow2(n - 1)

\* The frame quad_tree.add runs in when main calls it: the module is frame 1
\* and main frame 2.
AddFrame == 3

\* sys.getrecursionlimit(), scaled: 1000 = 3 * 332 + 4.
RecursionLimit == 3 * MaxDepth + 4

\* The deepest level a node can be constructed on: its parent is reached by
\* delegation at two frames a level and its split needs three more levels.
MaxLevel == (RecursionLimit - AddFrame - 1) \div 2

\* Model units per degree.
Scale == Pow2(MaxLevel)

\* Values of the max_nodes argument: argparse's type=int accepts any
\* integer, also zero and negative ones.
Capacities == {-1} \cup (0 .. MaxCapacity)

\* (lat, lon) of the input points, in degrees.  The first four lie in the
\* four quadrants of the root (NE, NW, SE, SW); <<20, 20>>, <<0, 0>> and
\* <<3, 3>> lie in NE as well, where <<0, 0>> and <<3, 3>> are told apart by
\* the midpoints of level 5 only and the other pairs by those of a level
\* above; <<95, 10>> and <<100, 10>> lie outside the root rectangle
\* (lat > 90) and no midpoint tells them apart.
Coordinates ==
    { <<10, 10>>, <<10, -10>>, <<-10, 10>>, <<-10, -10>>,
      <<20, 20>>, <<0, 0>>, <<3, 3>>,
      <<95, 10>>, <<100, 10>> }

\* --------------------------------------------------------------- the heap
Root == << >>

None == << "None" >>

\* OsmNodeWrapper(lat, lon, node): node stands for the XML element, here the
\* position of the element in the input file.
OsmNodeWrapper(lat, lon, node) == [lat |-> lat, lon |-> lon, node |-> node]

\* QTNode.__init__
QTNode(min_lat, max_lat, min_lon, max_lon, max_members) ==
    [ members     |-> << >>,
      min_lat     |-> min_lat,
      max_lat     |-> max_lat,
      mid_lat     |-> (min_lat + max_lat) \div 2,
      min_lon     |-> min_lon,
      max_lon     |-> max_lon,
      mid_lon     |-> (min_lon + max_lon) \div 2,
      max_members |-> max_members,
      is_leaf     |-> TRUE,
      lower_left  |-> None,
      lower_right |-> None,
      upper_left  |-> None,
      upper_right |-> None ]

\* Result of a call that ran to its end on heap t.
Returned(t) == [tree |-> t, ok |-> TRUE]

\* Result of a call that was ended by RecursionError on heap t.
Raised(t) == [tree |-> t, ok |-> FALSE]

\* Every operator below has the parameter f, the depth of the frame its body
\* runs in.  A call from frame f runs in frame f + 1; when f + 1 exceeds
\* RecursionLimit the frame is not created and the call raises
\* RecursionError, which nothing in the program catches.

\* add_2_child sending a point on a midpoint to the lower / left side.
add_2_child_strict(t, self, osm_node, f) ==
    IF f > RecursionLimit
    THEN Raised(t)
    ELSE IF osm_node.lat > t[self].mid_lat
         THEN IF osm_node.lon > t[self].mid_lon
              THEN add(t, t[self].upper_right, osm_node, f + 1)
              ELSE add(t, t[self].upper_left, osm_node, f + 1)
         ELSE IF osm_node.lon > t[self].mid_lon
              THEN add(t, t[self].lower_right, osm_node, f + 1)
              ELSE add(t, t[self].lower_left, osm_node, f + 1)

\* add_2_child with upper_left and lower_right exchanged.
add_2_child_swapped(t, self, osm_node, f) ==
    IF f > RecursionLimit
    THEN Raised(t)
    ELSE IF osm_node.lat >= t[self].mid_lat
         THEN IF osm_node.lon >= t[self].mid_lon
              THEN add(t, t[self].upper_right, osm_node, f + 1)
              ELSE add(t, t[self].lower_right, osm_node, f + 1)
         ELSE IF osm_node.lon >= t[self].mid_lon
              THEN add(t, t[self].upper_left, osm_node, f + 1)
              ELSE add(t, t[self].lower_left, osm_node, f + 1)

\* QTNode.add_2_child: the child the comparisons with the midpoints select.
add_2_child(t, self, osm_node, f) ==
    IF f > RecursionLimit
    THEN Raised(t)
    ELSE IF osm_node.lat >= t[self].mid_lat
         THEN IF osm_node.lon >= t[self].mid_lon
              THEN add(t, t[self].upper_right, osm_node, f + 1)
              ELSE add(t, t[self].upper_left, osm_node, f + 1)
         ELSE IF osm_node.lon >= t[self].mid_lon
              THEN add(t, t[self].lower_right, osm_node, f + 1)
              ELSE add(t, t[self].lower_left, osm_node, f + 1)

\* The redistribution loop running over the members from the last to the
\* first.
split_members_reversed(t, self, i, f) ==
    IF i > Len(t[self].members)
    THEN Returned(t)
    ELSE LET r == add_2_child(t, self, t[self].members[Len(t[self].members) + 1 - i], f + 1)
         IN  IF r.ok THEN split_members(r.tree, self, i + 1, f) ELSE r

\* The redistribution loop with an off-by-one end: the last member is never
\* handed to a child.
split_members_lossy(t, self, i, f) ==
    IF i >= Len(t[self].members)
    THEN Returned(t)
    ELSE LET r == add_2_child(t, self, t[self].members[i], f + 1)
         IN  IF r.ok THEN split_members(r.tree, self, i + 1, f) ELSE r

\* The loop "for node in self.members: self.add_2_child(node)" of split,
\* from the i-th member on; an exception leaves the loop at once.
split_members(t, self, i, f) ==
    IF i > Len(t[self].members)
    THEN Returned(t)
    ELSE LET r == add_2_child(t, self, t[self].members[i], f + 1)
         IN  IF r.ok THEN split_members(r.tree, self, i + 1, f) ELSE r

\* split without the final self.members.clear().
split_keep_members(t, self, f) ==
    IF f + 2 > RecursionLimit
    THEN Raised(t)
    ELSE LET n  == t[self]
             ul == self \o << "upper_left" >>
             ll == self \o << "lower_left" >>
             ur == self \o << "upper_right" >>
             lr == self \o << "lower_right" >>
             t1 == (ul :> QTNode((n.min_lat + n.max_lat) \div 2, n.max_lat,
                                 n.min_lon, (n.min_lon + n.max_lon) \div 2,
                                 n.max_members))
                   @@ (ll :> QTNode(n.min_lat, (n.max_lat + n.min_lat) \div 2,
                                    n.min_lon, (n.min_lon + n.max_lon) \div 2,
                                    n.max_members))
                   @@ (ur :> QTNode((n.min_lat + n.max_lat) \div 2, n.max_lat,
                                    (n.min_lon + n.max_lon) \div 2, n.max_lon,
                                    n.max_members))
                   @@ (lr :> QTNode(n.min_lat, (n.max_lat + n.min_lat) \div 2,
                                    (n.min_lon + n.max_lon) \div 2, n.max_lon,
                                    n.max_members))
                   @@ [t EXCEPT ![self] =
                         [n EXCEPT !.upper_left  = ul,
                                   !.lower_left  = ll,
                                   !.upper_right = ur,
                                   !.lower_right = lr,
                                   !.is_leaf     = FALSE,
                                   !.mid_lat     = (n.max_lat + n.min_lat) \div 2,
                                   !.mid_lon     = (n.max_lon + n.min_lon) \div 2]]
             r  == split_members(t1, self, 1, f)
         IN  IF r.ok
             THEN Returned(r.tree)
             ELSE r

\* split giving upper_left the whole latitude range of the parent.
split_overlap(t, self, f) ==
    IF f + 2 > RecursionLimit
    THEN Raised(t)
    ELSE LET n  == t[self]
             ul == self \o << "upper_left" >>
             ll == self \o << "lower_left" >>
             ur == self \o << "upper_right" >>
             lr == self \o << "lower_right" >>
             t1 == (ul :> QTNode(n.min_lat, n.max_lat,
                                 n.min_lon, (n.min_lon + n.max_lon) \div 2,
                                 n.max_members))
                   @@ (ll :> QTNode(n.min_lat, (n.max_lat + n.min_lat) \div 2,
                                    n.min_lon, (n.min_lon + n.max_lon) \div 2,
                                    n.max_members))
                   @@ (ur :> QTNode((n.min_lat + n.max_lat) \div 2, n.max_lat,
                                    (n.min_lon + n.max_lon) \div 2, n.max_lon,
                                    n.max_members))
                   @@ (lr :> QTNode(n.min_lat, (n.max_lat + n.min_lat) \div 2,
                                    (n.min_lon + n.max_lon) \div 2, n.max_lon,
                                    n.max_members))
                   @@ [t EXCEPT ![self] =
                         [n EXCEPT !.upper_left  = ul,
                                   !.lower_left  = ll,
                                   !.upper_right = ur,
                                   !.lower_right = lr,
                                   !.is_leaf     = FALSE,
                                   !.mid_lat     = (n.max_lat + n.min_lat) \div 2,
                                   !.mid_lon     = (n.max_lon + n.min_lon) \div 2]]
             r  == split_members(t1, self, 1, f)
         IN  IF r.ok
             THEN Returned([r.tree EXCEPT ![self].members = << >>])
             ELSE r

\* split without "self.is_leaf = False".
split_stays_leaf(t, self, f) ==
    IF f + 2 > RecursionLimit
    THEN Raised(t)
    ELSE LET n  == t[self]
             ul == self \o << "upper_left" >>
             ll == self \o << "lower_left" >>
             ur == self \o << "upper_right" >>
             lr == self \o << "lower_right" >>
             t1 == (ul :> QTNode((n.min_lat + n.max_lat) \div 2, n.max_lat,
                                 n.min_lon, (n.min_lon + n.max_lon) \div 2,
                                 n.max_members))
                   @@ (ll :> QTNode(n.min_lat, (n.max_lat + n.min_lat) \div 2,
                                    n.min_lon, (n.min_lon + n.max_lon) \div 2,
                                    n.max_members))
                   @@ (ur :> QTNode((n.min_lat + n.max_lat) \div 2, n.max_lat,
                                    (n.min_lon + n.max_lon) \div 2, n.max_lon,
                                    n.max_members))
                   @@ (lr :> QTNode(n.min_lat, (n.max_lat + n.min_lat) \div 2,
                                    (n.min_lon + n.max_lon) \div 2, n.max_lon,
                                    n.max_members))
                   @@ [t EXCEPT ![self] =
                         [n EXCEPT !.upper_left  = ul,
                                   !.lower_left  = ll,
                                   !.upper_right = ur,
                                   !.lower_right = lr,
                                   !.mid_lat     = (n.max_lat + n.min_lat) \div 2,
                                   !.mid_lon     = (n.max_lon + n.min_lon) \div 2]]
             r  == split_members(t1, self, 1, f)
         IN  IF r.ok
             THEN Returned([r.tree EXCEPT ![self].members = << >>])
             ELSE r

\* QTNode.split.  The first statement constructs a QTNode, which takes two
\* levels of the stack (the call of the class and its __init__): when they do
\* not fit, split raises before it has changed anything.  The calls that
\* follow need one level each and then fit.
split(t, self, f) ==
    IF f + 2 > RecursionLimit
    THEN Raised(t)
    ELSE LET n  == t[self]
             ul == self \o << "upper_left" >>
             ll == self \o << "lower_left" >>
             ur == self \o << "upper_right" >>
             lr == self \o << "lower_right" >>
             t1 == (ul :> QTNode((n.min_lat + n.max_lat) \div 2, n.max_lat,
                                 n.min_lon, (n.min_lon + n.max_lon) \div 2,
                                 n.max_members))
                   @@ (ll :> QTNode(n.min_lat, (n.max_lat + n.min_lat) \div 2,
                                    n.min_lon, (n.min_lon + n.max_lon) \div 2,
                                    n.max_members))
                   @@ (ur :> QTNode((n.min_lat + n.max_lat) \div 2, n.max_lat,
                                    (n.min_lon + n.max_lon) \div 2, n.max_lon,
                                    n.max_members))
                   @@ (lr :> QTNode(n.min_lat, (n.max_lat + n.min_lat) \div 2,
                                    (n.min_lon + n.max_lon) \div 2, n.max_lon,
                                    n.max_members))
                   @@ [t EXCEPT ![self] =
                         [n EXCEPT !.upper_left  = ul,
                                   !.lower_left  = ll,
                                   !.upper_right = ur,
                                   !.lower_right = lr,
                                   !.is_leaf     = FALSE,
                                   !.mid_lat     = (n.max_lat + n.min_lat) \div 2,
                                   !.mid_lon     = (n.max_lon + n.min_lon) \div 2]]
             r  == split_members(t1, self, 1, f)
         IN  IF r.ok
             THEN Returned([r.tree EXCEPT ![self].members = << >>])
             ELSE r

\* add that splits a leaf as soon as it is full.
add_early_split(t, self, osm_node, f) ==
    IF f > RecursionLimit
    THEN Raised(t)
    ELSE IF t[self].is_leaf
         THEN LET t1 == [t EXCEPT ![self].members = Append(@, osm_node)]
              IN  IF Len(t1[self].members) >= t1[self].max_members
                  THEN split(t1, self, f + 1)
                  ELSE Returned(t1)
         ELSE add_2_child(t, self, osm_node, f + 1)

\* add that splits one member too late.
add_late_split(t, self, osm_node, f) ==
    IF f > RecursionLimit
    THEN Raised(t)
    ELSE IF t[self].is_leaf
         THEN LET t1 == [t EXCEPT ![self].members = Append(@, osm_node)]
              IN  IF Len(t1[self].members) > t1[self].max_members + 1
                  THEN split(t1, self, f + 1)
                  ELSE Returned(t1)
         ELSE add_2_child(t, self, osm_node, f + 1)

\* QTNode.add
add(t, self, osm_node, f) ==
    IF f > RecursionLimit
    THEN Raised(t)
    ELSE IF t[self].is_leaf
         THEN LET t1 == [t EXCEPT ![self].members = Append(@, osm_node)]
              IN  IF Len(t1[self].members) > t1[self].max_members
                  THEN split(t1, self, f + 1)
                  ELSE Returned(t1)
         ELSE add_2_child(t, self, osm_node, f + 1)

\* One file written by write_leaves: the name is the list of the pieces the
\* program concatenates, the contents are the XML elements in file order.
OsmFile(file_name, members) ==
    [ file_name |-> file_name \o << ".osm" >>,
      nodes     |-> [i \in 1 .. Len(members) |-> members[i].node] ]

\* write_leaves without the test for an empty member list.
write_leaves_all(t, self, file_name) ==
    IF t[self].is_leaf
    THEN [tree |-> t, files |-> << OsmFile(file_name, t[self].members) >>]
    ELSE LET sw == write_leaves(t, t[self].lower_left, file_name \o << "SW" >>)
             se == write_leaves(sw.tree, sw.tree[self].lower_right,
                                file_name \o << "SE" >>)
             nw == write_leaves(se.tree, se.tree[self].upper_left,
                                file_name \o << "NW" >>)
             ne == write_leaves(nw.tree, nw.tree[self].upper_right,
                                file_name \o << "NE" >>)
         IN  [tree  |-> ne.tree,
              files |-> sw.files \o se.files \o nw.files \o ne.files]

\* write_leaves emptying the member list of a leaf once it is written.
write_leaves_consume(t, self, file_name) ==
    IF t[self].is_leaf
    THEN IF t[self].members # << >>
         THEN [tree  |-> [t EXCEPT ![self].members = << >>],
               files |-> << OsmFile(file_name, t[self].members) >>]
         ELSE [tree |-> t, files |-> << >>]
    ELSE LET sw == write_leaves(t, t[self].lower_left, file_name \o << "SW" >>)
             se == write_leaves(sw.tree, sw.tree[self].lower_right,
                                file_name \o << "SE" >>)
             nw == write_leaves(se.tree, se.tree[self].upper_left,
                                file_name \o << "NW" >>)
             ne == write_leaves(nw.tree, nw.tree[self].upper_right,
                                file_name \o << "NE" >>)
         IN  [tree  |-> ne.tree,
              files |-> sw.files \o se.files \o nw.files \o ne.files]

\* write_leaves with the suffixes of lower_right and upper_left exchanged.
write_leaves_mislabel(t, self, file_name) ==
    IF t[self].is_leaf
    THEN IF t[self].members # << >>
         THEN [tree |-> t, files |-> << OsmFile(file_name, t[self].members) >>]
         ELSE [tree |-> t, files |-> << >>]
    ELSE LET sw == write_leaves(t, t[self].lower_left, file_name \o << "SW" >>)
             se == write_leaves(sw.tree, sw.tree[self].lower_right,
                                file_name \o << "NW" >>)
             nw == write_leaves(se.tree, se.tree[self].upper_left,
                                file_name \o << "SE" >>)
             ne == write_leaves(nw.tree, nw.tree[self].upper_right,
                                file_name \o << "NE" >>)
         IN  [tree  |-> ne.tree,
              files |-> sw.files \o se.files \o nw.files \o ne.files]

\* write_leaves visiting the children column by column (lower_left,
\* upper_left, lower_right, upper_right) instead of row by row.
write_leaves_left_first(t, self, file_name) ==
    IF t[self].is_leaf
    THEN IF t[self].members # << >>
         THEN [tree |-> t, files |-> << OsmFile(file_name, t[self].members) >>]
         ELSE [tree |-> t, files |-> << >>]
    ELSE LET sw == write_leaves(t, t[self].lower_left, file_name \o << "SW" >>)
             nw == write_leaves(sw.tree, sw.tree[self].upper_left,
                                file_name \o << "NW" >>)
             se == write_leaves(nw.tree, nw.tree[self].lower_right,
                                file_name \o << "SE" >>)
             ne == write_leaves(se.tree, se.tree[self].upper_right,
                                file_name \o << "NE" >>)
         IN  [tree  |-> ne.tree,
              files |-> sw.files \o nw.files \o se.files \o ne.files]

\* QTNode.write_leaves: the heap after the call and the files opened for
\* writing, in the order in which they are written.
write_leaves(t, self, file_name) ==
    IF t[self].is_leaf
    THEN IF t[self].members # << >>
         THEN [tree |-> t, files |-> << OsmFile(file_name, t[self].members) >>]
         ELSE [tree |-> t, files |-> << >>]
    ELSE LET sw == write_leaves(t, t[self].lower_left, file_name \o << "SW" >>)
             se == write_leaves(sw.tree, sw.tree[self].lower_right,
                                file_name \o << "SE" >>)
             nw == write_leaves(se.tree, se.tree[self].upper_left,
                                file_name \o << "NW" >>)
             ne == write_leaves(nw.tree, nw.tree[self].upper_right,
                                file_name \o << "NE" >>)
         IN  [tree  |-> ne.tree,
              files |-> sw.files \o se.files \o nw.files \o ne.files]

\* ------------------------------------------------------------- the state
VARIABLES
    tree,       \* the QTNode objects, by address
    inserted,   \* the points main has passed to quad_tree.add so far
    status,     \* "ok", or "RecursionError" once an add was ended by it
    last_call,  \* the last call made on the root object
    prev_call,  \* the call made on the root object before that one
    emitted     \* files written by the last write_leaves call, in order

vars == << tree, inserted, status, last_call, prev_call, emitted >>

\* quad_tree = QTNode(-90, 90, -180, 180, args.max_nodes)
Init ==
    /\ \E max_nodes \in Capacities :
          tree = (Root :> QTNode(-90 * Scale, 90 * Scale,
                                 -180 * Scale, 180 * Scale, max_nodes))
    /\ inserted = << >>
    /\ status = "ok"
    /\ last_call = "QTNode"
    /\ prev_call = "QTNode"
    /\ emitted = << >>

\* One turn of main's loop: quad_tree.add(OsmNodeWrapper(lat, lon, child)).
\* An uncaught RecursionError ends the program.
Add(c) ==
    /\ status = "ok"
    /\ Len(inserted) < MaxPoints
    /\ LET osm_node == OsmNodeWrapper(c[1] * Scale, c[2] * Scale,
                                      Len(inserted) + 1)
           r == add(tree, Root, osm_node, AddFrame)
       IN  /\ tree' = r.tree
           /\ inserted' = Append(inserted, osm_node)
           /\ status' = IF r.ok THEN "ok" ELSE "RecursionError"
    /\ last_call' = "add"
    /\ prev_call' = last_call
    /\ UNCHANGED emitted

\* quad_tree.write_leaves(args.out_dir, 'root')
WriteLeaves ==
    /\ status = "ok"
    /\ LET r == write_leaves(tree, Root, << "root" >>)
       IN  /\ tree' = r.tree
           /\ emitted' = r.files
    /\ last_call' = "write_leaves"
    /\ prev_call' = last_call
    /\ UNCHANGED << inserted, status >>

Next ==
    \/ \E c \in Coordinates : Add(c)
    \/ WriteLeaves

Spec == Init /\ [][Next]_vars

\* ------------------------------------------------------------ properties
\* Addresses of the leaves of heap t.
Leaves(t) == {a \in DOMAIN t : t[a].is_leaf}

\* The places (leaf, position in its member list) where heap t holds p.
Holders(t, p) ==
    {h \in {<<a, k>> : a \in Leaves(t), k \in 1 .. MaxPoints + 1} :
        h[2] <= Len(t[h[1]].members) /\ t[h[1]].members[h[2]] = p}

RECURSIVE SumMembers(_, _)
\* Number of members of the leaves S of heap t, added up.
SumMembers(t, S) ==
    IF S = {} THEN 0
    ELSE LET a == CHOOSE x \in S : TRUE
         IN  Len(t[a].members) + SumMembers(t, S \ {a})

RECURSIVE SumNodes(_)
\* Number of XML elements in the files fs, added up.
SumNodes(fs) ==
    IF fs = << >> THEN 0 ELSE Len(Head(fs).nodes) + SumNodes(Tail(fs))

\* C1 Conservation: with a positive capacity, once every add has returned,
\* each inserted point is held in exactly one place of exactly one leaf, the
\* member counts of the leaves add up to the number of inserted points, and
\* so do the sizes of the files of an enumeration made in that state.
Conservation ==
    (status = "ok" /\ tree[Root].max_members > 0) =>
        /\ \A i \in 1 .. Len(inserted) :
               Cardinality(Holders(tree, inserted[i])) = 1
        /\ SumMembers(tree, Leaves(tree)) = Len(inserted)
        /\ last_call = "write_leaves" => SumNodes(emitted) = Len(inserted)

\* Three points inserted, the root was split, and the leaves were enumerated.
ConservationWitness ==
    /\ status = "ok"
    /\ tree[Root].max_members > 0
    /\ Len(inserted) >= 3
    /\ ~tree[Root].is_leaf
    /\ last_call = "write_leaves"

\* C2 Capacity bound: after an add on the root has returned, no leaf holds
\* more than max_members points.
CapacityBound ==
    (status = "ok" /\ inserted # << >>) =>
        \A a \in Leaves(tree) : Len(tree[a].members) <= tree[a].max_members

\* All points of the splitting root fell into one quadrant, and the child
\* that received them was split in the same add.
CapacityBoundWitness ==
    /\ status = "ok"
    /\ last_call = "add"
    /\ ~tree[Root].is_leaf
    /\ \E a \in DOMAIN tree :
          /\ Len(a) = 1
          /\ ~tree[a].is_leaf
          /\ \A b \in DOMAIN tree :
                (Len(b) = 1 /\ b # a) =>
                    (tree[b].is_leaf /\ tree[b].members = << >>)
    /\ Len(inserted) = tree[Root].max_members + 1

\* The inserted points whose coordinates are those of the i-th one.
Coincident(i) ==
    {j \in 1 .. Len(inserted) :
        inserted[j].lat = inserted[i].lat /\ inserted[j].lon = inserted[i].lon}

\* More than max_members of the inserted points share their coordinates.
CoincidentOverflow ==
    \E i \in 1 .. Len(inserted) :
        Cardinality(Coincident(i)) > tree[Root].max_members

\* C3 Degenerate split terminates: when more than capacity (> 0) points with
\* identical coordinates have been inserted, every add has returned: the
\* splitting was stopped at a bounded depth and did not run until the call
\* stack was exhausted.
DegenerateSplitTerminates ==
    (tree[Root].max_members > 0 /\ CoincidentOverflow) => status = "ok"

\* C4 Invalid capacity is rejected eagerly: the construction of a root with
\* a capacity of zero or less fails, so no point is ever inserted into a tree
\* with such a capacity.
InvalidCapacityRejected ==
    inserted # << >> => tree[Root].max_members > 0

\* main's loop from a fresh root: the points of seq inserted one after another
\* into tr, stopping at the first add that does not return.
RECURSIVE InsertAll(_, _)
InsertAll(tr, seq) ==
    IF seq = << >> THEN Returned(tr)
    ELSE LET r == add(tr, Root, Head(seq), AddFrame)
         IN  IF r.ok THEN InsertAll(r.tree, Tail(seq)) ELSE r

\* A fresh root with the rectangle and the capacity of the present root.
FreshRoot ==
    Root :> QTNode(tree[Root].min_lat, tree[Root].max_lat,
                   tree[Root].min_lon, tree[Root].max_lon,
                   tree[Root].max_members)

\* What a tree is apart from the order inside the member lists: its nodes,
\* which of them are leaves, and the set of points each one holds.
Partition(t) ==
    [a \in DOMAIN t |->
        [is_leaf |-> t[a].is_leaf,
         points  |-> {t[a].members[k] : k \in 1 .. Len(t[a].members)}]]

\* C5 Insertion-order insensitivity: when the inserts have all returned,
\* inserting the same points in any other order into a fresh root with the
\* same rectangle and capacity returns as well and gives the same internal
\* nodes, the same leaves and the same set of points in every leaf.
OrderInsensitive ==
    status = "ok" =>
        \A perm \in Permutations(1 .. Len(inserted)) :
            LET r == InsertAll(FreshRoot,
                               [i \in 1 .. Len(inserted) |-> inserted[perm[i]]])
            IN  r.ok /\ Partition(r.tree) = Partition(tree)

\* The quadrant codes of a file name: the name without "root" and ".osm".
PathOf(file_name) == SubSeq(file_name, 2, Len(file_name) - 1)

\* Position of a quadrant code in the order SW < SE < NW < NE.
Rank(q) == CASE q = "SW" -> 1 [] q = "SE" -> 2 [] q = "NW" -> 3 [] q = "NE" -> 4

\* Path p is smaller than path q at the first quadrant where they differ.
PathBefore(p, q) ==
    \E k \in 1 .. Len(p) :
        /\ k <= Len(q)
        /\ \A j \in 1 .. k - 1 : p[j] = q[j]
        /\ Rank(p[k]) < Rank(q[k])

\* C6 Enumeration order: of two files written by one write_leaves call, the
\* one written first has the smaller path at the first differing quadrant,
\* in the order SW < SE < NW < NE.
EnumerationOrder ==
    last_call = "write_leaves" =>
        \A i, j \in 1 .. Len(emitted) :
            i < j => PathBefore(PathOf(emitted[i].file_name),
                                PathOf(emitted[j].file_name))

\* One call wrote the leaves [SE], [NW] and [NE] of the root, in this order.
EnumerationOrderWitness ==
    /\ last_call = "write_leaves"
    /\ Len(emitted) = 3
    /\ PathOf(emitted[1].file_name) = << "SE" >>
    /\ PathOf(emitted[2].file_name) = << "NW" >>
    /\ PathOf(emitted[3].file_name) = << "NE" >>

\* The suffix write_leaves appends to the file name for the child stored in
\* attribute attr.
Suffix(attr) ==
    CASE attr = "lower_left"  -> "SW"
      [] attr = "lower_right" -> "SE"
      [] attr = "upper_left"  -> "NW"
      [] attr = "upper_right" -> "NE"

\* The name of the file write_leaves(out_dir, 'root') on the root writes for
\* the leaf at address a.
FileNameOf(a) ==
    << "root" >> \o [k \in 1 .. Len(a) |-> Suffix(a[k])] \o << ".osm" >>

\* C7 Empty leaves are skipped: the files written by a write_leaves call are
\* those of the leaves with a non-empty member list, one file each, and every
\* file holds the members of its leaf.
EmptyLeavesSkipped ==
    last_call = "write_leaves" =>
        /\ {emitted[i].file_name : i \in 1 .. Len(emitted)} =
               {FileNameOf(a) : a \in {b \in Leaves(tree) : tree[b].members # << >>}}
        /\ \A i, j \in 1 .. Len(emitted) :
               emitted[i].file_name = emitted[j].file_name => i = j
        /\ \A i \in 1 .. Len(emitted) : emitted[i].nodes # << >>
        /\ \A a \in Leaves(tree) : \A i \in 1 .. Len(emitted) :
               emitted[i].file_name = FileNameOf(a) =>
                   emitted[i].nodes =
                       [k \in 1 .. Len(tree[a].members) |-> tree[a].members[k].node]

\* An enumeration of a tree with an empty and a non-empty leaf.
EmptyLeavesSkippedWitness ==
    /\ last_call = "write_leaves"
    /\ emitted # << >>
    /\ \E a, b \in Leaves(tree) :
          tree[a].members = << >> /\ tree[b].members # << >>

\* C8 Enumeration is read-only and repeatable: a write_leaves call leaves
\* every node of the tree as it was, and a call that directly follows another
\* write_leaves call writes the same files in the same order.
EnumerationReadOnly ==
    [][ (last_call' = "write_leaves") =>
            /\ tree' = tree
            /\ last_call = "write_leaves" => emitted' = emitted ]_vars

\* Two enumerations in a row of a tree that was split.
EnumerationReadOnlyWitness ==
    /\ last_call = "write_leaves"
    /\ prev_call = "write_leaves"
    /\ Len(emitted) >= 2

\* The i-th inserted point lies outside the rectangle of the root.
OutOfRange(i) ==
    \/ inserted[i].lat < tree[Root].min_lat
    \/ inserted[i].lat > tree[Root].max_lat
    \/ inserted[i].lon < tree[Root].min_lon
    \/ inserted[i].lon > tree[Root].max_lon

\* No two inserted points have the same coordinates.
AllDistinct ==
    \A i \in 1 .. Len(inserted) : Coincident(i) = {i}

\* C9 Out-of-range points are accepted: with a positive capacity and points
\* of pairwise different coordinates, some of them outside the root
\* rectangle, every add returns without an error, each point is held in
\* exactly one leaf and no leaf holds more than max_members points.
OutOfRangeAccepted ==
    (/\ tree[Root].max_members > 0
     /\ AllDistinct
     /\ \E i \in 1 .. Len(inserted) : OutOfRange(i)) =>
        /\ status = "ok"
        /\ \A i \in 1 .. Len(inserted) :
               Cardinality(Holders(tree, inserted[i])) = 1
        /\ \A a \in Leaves(tree) : Len(tree[a].members) <= tree[a].max_members

\* The addresses of the subtree of heap t below and including a.
Subtree(t, a) ==
    {b \in DOMAIN t : Len(b) >= Len(a) /\ SubSeq(b, 1, Len(a)) = a}

\* A node is internal only if more than max_members points went into it.
SplitOnlyAboveCapacity ==
    status = "ok" =>
        \A a \in DOMAIN tree :
            ~tree[a].is_leaf =>
                SumMembers(tree, Subtree(tree, a) \cap Leaves(tree))
                    > tree[a].max_members

\* The one file an enumeration writes for a root that is a leaf.
RootFile ==
    << [file_name |-> << "root", ".osm" >>,
        nodes     |-> [k \in 1 .. Len(inserted) |-> inserted[k].node]] >>

\* C10 as stated: while at most capacity (> 0) points have been inserted the
\* root is a leaf and an enumeration writes exactly one file, the one of the
\* root, with all inserted points.
NoSplitAtOrBelowCapacityOriginal ==
    /\ SplitOnlyAboveCapacity
    /\ (tree[Root].max_members > 0 /\ Len(inserted) <= tree[Root].max_members) =>
          /\ tree[Root].is_leaf
          /\ last_call = "write_leaves" => emitted = RootFile

\* C10 amended: a node is internal only if more than capacity points went
\* into it; while at most capacity points have been inserted the root is a
\* leaf, and an enumeration writes exactly one file, the one of the root with
\* all inserted points, if at least one point has been inserted, and no file
\* if none has been.
NoSplitAtOrBelowCapacity ==
    /\ SplitOnlyAboveCapacity
    /\ (Len(inserted) <= tree[Root].max_members) =>
          /\ tree[Root].is_leaf
          /\ last_call = "write_leaves" =>
                emitted = (IF inserted = << >> THEN << >> ELSE RootFile)

\* As many points as the capacity, not all in one quadrant, and enumerated.
NoSplitAtOrBelowCapacityWitness ==
    /\ last_call = "write_leaves"
    /\ Len(inserted) = tree[Root].max_members
    /\ Len(inserted) >= 2
    /\ inserted[1].lat < tree[Root].mid_lat
    /\ inserted[2].lat >= tree[Root].mid_lat
    /\ emitted = RootFile

\* The four child references of node n.
Children(n) == {n.lower_left, n.lower_right, n.upper_left, n.upper_right}

\* C11 Structural invariant: after an add on the root has returned, every
\* node is either a leaf whose four child references are None, or an internal
\* node with four different children, all of them nodes of the tree, and an
\* empty member list.
StructuralInvariant ==
    (status = "ok" /\ inserted # << >>) =>
        \A a \in DOMAIN tree :
            \/ /\ tree[a].is_leaf
               /\ Children(tree[a]) = {None}
            \/ /\ ~tree[a].is_leaf
               /\ None \notin Children(tree[a])
               /\ Cardinality(Children(tree[a])) = 4
               /\ Children(tree[a]) \subseteq DOMAIN tree
               /\ tree[a].members = << >>

\* A tree with a split root and a split child, after an add that returned.
StructuralInvariantWitness ==
    /\ status = "ok"
    /\ last_call = "add"
    /\ \E a \in DOMAIN tree : Len(a) = 1 /\ ~tree[a].is_leaf
    /\ \E a \in Leaves(tree) : Len(a) >= 2 /\ tree[a].members # << >>

\* The attribute of the child on the side of node n that the rule "upper half
\* iff lat >= mid_lat, right half iff lon >= mid_lon" gives point p.
SideOf(n, p) ==
    IF p.lat >= n.mid_lat
    THEN IF p.lon >= n.mid_lon THEN "upper_right" ELSE "upper_left"
    ELSE IF p.lon >= n.mid_lon THEN "lower_right" ELSE "lower_left"

\* C12 One routing rule: the midpoints of every internal node are those of
\* its rectangle, and every stored point, whether it came down by delegation
\* or by redistribution, lies below each internal node on its way in the
\* child on the side the rule gives it (on a midpoint: the upper / right one).
OneRoutingRule ==
    \A a \in Leaves(tree) : \A k \in 1 .. Len(tree[a].members) :
        \A d \in 0 .. Len(a) - 1 :
            LET n == tree[SubSeq(a, 1, d)]
            IN  /\ 2 * n.mid_lat = n.min_lat + n.max_lat
                /\ 2 * n.mid_lon = n.min_lon + n.max_lon
                /\ a[d + 1] = SideOf(n, tree[a].members[k])

\* A point on both midpoints of the root is stored below root.upper_right,
\* and a third point was delegated by the root after its split.
OneRoutingRuleWitness ==
    /\ status = "ok"
    /\ ~tree[Root].is_leaf
    /\ Len(inserted) >= 3
    /\ tree[Root].max_members = 1
    /\ \E a \in Leaves(tree) : \E k \in 1 .. Len(tree[a].members) :
          /\ a[1] = "upper_right"
          /\ tree[a].members[k].lat = tree[Root].mid_lat
          /\ tree[a].members[k].lon = tree[Root].mid_lon

\* The rectangle of node n.
Rect(n) ==
    [min_lat |-> n.min_lat, max_lat |-> n.max_lat,
     min_lon |-> n.min_lon, max_lon |-> n.max_lon]

\* The quadrant of rectangle r the routing rule gives point p: SW = lower and
\* left, SE = lower and right, NW = upper and left, NE = upper and right.
Quadrant(r, p) ==
    IF p.lat >= (r.min_lat + r.max_lat) \div 2
    THEN IF p.lon >= (r.min_lon + r.max_lon) \div 2 THEN "NE" ELSE "NW"
    ELSE IF p.lon >= (r.min_lon + r.max_lon) \div 2 THEN "SE" ELSE "SW"

\* Quadrant q of rectangle r, bisected at its midpoints.
Quarter(r, q) ==
    [min_lat |-> IF q \in {"NW", "NE"} THEN (r.min_lat + r.max_lat) \div 2
                 ELSE r.min_lat,
     max_lat |-> IF q \in {"NW", "NE"} THEN r.max_lat
                 ELSE (r.min_lat + r.max_lat) \div 2,
     min_lon |-> IF q \in {"SE", "NE"} THEN (r.min_lon + r.max_lon) \div 2
                 ELSE r.min_lon,
     max_lon |-> IF q \in {"SE", "NE"} THEN r.max_lon
                 ELSE (r.min_lon + r.max_lon) \div 2]

RECURSIVE RoutedPath(_, _, _)
\* The first n quadrants the routing rule selects for p, from rectangle r
\* downwards.
RoutedPath(r, p, n) ==
    IF n = 0 THEN << >>
    ELSE << Quadrant(r, p) >>
         \o RoutedPath(Quarter(r, Quadrant(r, p)), p, n - 1)

\* C13 Path matches routing: the path in the name of every file written is
\* the sequence of quadrants the routing rule selects, from the root
\* rectangle downwards, for each point in that file; two files of one
\* enumeration, and two leaves of the tree, never have the same path.
PathMatchesRouting ==
    last_call = "write_leaves" =>
        /\ \A i \in 1 .. Len(emitted) : \A k \in 1 .. Len(emitted[i].nodes) :
               PathOf(emitted[i].file_name) =
                   RoutedPath(Rect(tree[Root]), inserted[emitted[i].nodes[k]],
                              Len(PathOf(emitted[i].file_name)))
        /\ \A i, j \in 1 .. Len(emitted) :
               i # j => PathOf(emitted[i].file_name) # PathOf(emitted[j].file_name)
        /\ \A a, b \in Leaves(tree) :
               a # b => PathOf(FileNameOf(a)) # PathOf(FileNameOf(b))

\* Files with the paths ...SW and ...NW below NE were written.
PathMatchesRoutingWitness ==
    /\ last_call = "write_leaves"
    /\ \E i, j \in 1 .. Len(emitted) :
          LET pi == PathOf(emitted[i].file_name)
              pj == PathOf(emitted[j].file_name)
          IN  /\ Len(pi) >= 2 /\ Len(pj) >= 2
              /\ pi[1] = "NE" /\ pj[1] = "NE"
              /\ pi[Len(pi)] = "SW" /\ pj[Len(pj)] = "NW"

\* Rectangle c lies inside rectangle r.
Inside(c, r) ==
    /\ r.min_lat <= c.min_lat /\ c.max_lat <= r.max_lat
    /\ r.min_lon <= c.min_lon /\ c.max_lon <= r.max_lon

\* Rectangles c and e share at most boundary points.
InteriorsDisjoint(c, e) ==
    \/ c.max_lat <= e.min_lat \/ e.max_lat <= c.min_lat
    \/ c.max_lon <= e.min_lon \/ e.max_lon <= c.min_lon

\* The area of rectangle r, in cells of 90 by 180 model units (the sides of
\* every rectangle down to level MaxLevel are multiples of these).
Area(r) == ((r.max_lat - r.min_lat) \div 90) * ((r.max_lon - r.min_lon) \div 180)

RECURSIVE SumArea(_, _)
\* The areas of the rectangles of the nodes S of heap t, added up.
SumArea(t, S) ==
    IF S = {} THEN 0
    ELSE LET a == CHOOSE x \in S : TRUE
         IN  Area(Rect(t[a])) + SumArea(t, S \ {a})

\* C14 Disjoint tiling: the rectangles of the four children of every internal
\* node are the four quarters of the parent's rectangle bisected at its
\* midpoints; they lie inside the parent, any two of them share at most a
\* boundary, and together they cover the parent.
DisjointTiling ==
    \A a \in DOMAIN tree :
        ~tree[a].is_leaf =>
            LET n == tree[a]
                C == Children(n)
            IN  /\ 2 * n.mid_lat = n.min_lat + n.max_lat
                /\ 2 * n.mid_lon = n.min_lon + n.max_lon
                /\ {Rect(tree[c]) : c \in C} =
                       {Quarter(Rect(n), q) : q \in {"SW", "SE", "NW", "NE"}}
                /\ \A c \in C : Inside(Rect(tree[c]), Rect(n))
                /\ \A c, e \in C :
                       c # e => InteriorsDisjoint(Rect(tree[c]), Rect(tree[e]))
                /\ SumArea(tree, C) = Area(Rect(n))

\* A tree whose root and one of whose grandchildren were split.
DisjointTilingWitness ==
    /\ ~tree[Root].is_leaf
    /\ \E a \in DOMAIN tree : Len(a) = 2 /\ ~tree[a].is_leaf
    /\ status = "ok"

\* C15 Insertion order inside a leaf: the member list of every leaf holds its
\* points in the order in which they were inserted into the root (node is the
\* position of the point in the input), also after redistributions.
LeafKeepsInsertionOrder ==
    \A a \in Leaves(tree) :
        \A i, j \in 1 .. Len(tree[a].members) :
            i < j => tree[a].members[i].node < tree[a].members[j].node

\* A leaf two or more levels below the root that received two points through
\* cascading redistributions.
LeafKeepsInsertionOrderWitness ==
    /\ status = "ok"
    /\ tree[Root].max_members >= 2
    /\ Len(inserted) = tree[Root].max_members + 1
    /\ \E a \in Leaves(tree) : Len(a) >= 2 /\ Len(tree[a].members) >= 2

\* The nodes that are internal in heap u and were not internal in heap t:
\* the nodes on which split was invoked in between.
NewlySplit(t, u) ==
    {a \in DOMAIN u : ~u[a].is_leaf /\ (a \in DOMAIN t => t[a].is_leaf)}

\* C16 Split precondition: whenever split is invoked the node holds exactly
\* max_members + 1 members, and no leaf ever holds more.  A split that an
\* exception has interrupted still shows the list it was invoked with; a
\* split that ran to its end has handed that list to the leaves below it.
SplitPrecondition ==
    [][ /\ \A a \in Leaves(tree') :
              Len(tree'[a].members) <= tree'[a].max_members + 1
        /\ \A a \in NewlySplit(tree, tree') :
              IF status' = "ok"
              THEN SumMembers(tree', Subtree(tree', a) \cap Leaves(tree'))
                       = tree'[a].max_members + 1
              ELSE Len(tree'[a].members) = tree'[a].max_members + 1 ]_vars

\* The internal nodes of heap t.
Internal(t) == {a \in DOMAIN t : ~t[a].is_leaf}

\* The points heap t holds in the leaves below and including a.
PointsBelow(t, a) ==
    UNION {{t[b].members[k] : k \in 1 .. Len(t[b].members)} :
              b \in Subtree(t, a) \cap Leaves(t)}

\* C17 Splits are permanent and come in fours: a step leaves every internal
\* node internal, with the same four children, their rectangles and the
\* points below them; the new nodes of a step are the four children of the
\* nodes split in that step, so that the tree has 1 + 4 x (number of nodes
\* that were split) nodes and no node is split twice.
SplitsArePermanent ==
    [][ /\ \A a \in Internal(tree) :
              /\ a \in Internal(tree')
              /\ Children(tree'[a]) = Children(tree[a])
              /\ Rect(tree'[a]) = Rect(tree[a])
              /\ \A c \in Children(tree[a]) :
                    /\ c \in DOMAIN tree'
                    /\ Rect(tree'[c]) = Rect(tree[c])
                    /\ PointsBelow(tree, c) \subseteq PointsBelow(tree', c)
        /\ DOMAIN tree' \ DOMAIN tree =
              UNION {Children(tree'[a]) : a \in NewlySplit(tree, tree')}
        /\ Cardinality(DOMAIN tree') =
              Cardinality(DOMAIN tree) + 4 * Cardinality(NewlySplit(tree, tree'))
        /\ Cardinality(DOMAIN tree') = 1 + 4 * Cardinality(Internal(tree')) ]_vars

\* A tree of nine or more nodes whose root was split by an earlier add than
\* the last one.
SplitsArePermanentWitness ==
    /\ status = "ok"
    /\ last_call = "add"
    /\ Len(inserted) > tree[Root].max_members + 1
    /\ tree[Root].max_members > 0
    /\ Cardinality(Internal(tree)) >= 2
    /\ Cardinality(DOMAIN tree) >= 9

\* Point p lies in rectangle r, boundary included.
Contains(r, p) ==
    /\ r.min_lat <= p.lat /\ p.lat <= r.max_lat
    /\ r.min_lon <= p.lon /\ p.lon <= r.max_lon

\* C18 Containment: every point held by a leaf whose coordinates lie inside
\* the rectangle of the root lies inside the rectangle of that leaf.
Containment ==
    \A a \in Leaves(tree) : \A k \in 1 .. Len(tree[a].members) :
        Contains(Rect(tree[Root]), tree[a].members[k]) =>
            Contains(Rect(tree[a]), tree[a].members[k])

\* An in-range point in an upper-left leaf three or more levels down, another
\* in-range point in another leaf, and an out-of-range point in a leaf that
\* does not contain it.
ContainmentWitness ==
    /\ status = "ok"
    /\ \E a, b, c \in Leaves(tree) :
          /\ Len(a) >= 3 /\ tree[a].members # << >>
          /\ Contains(Rect(tree[Root]), tree[a].members[1])
          /\ a[Len(a)] = "upper_left"
          /\ tree[b].members # << >>
          /\ ~Contains(Rect(tree[b]), tree[b].members[1])
          /\ c # a
          /\ tree[c].members # << >>
          /\ Contains(Rect(tree[Root]), tree[c].members[1])

=============================================================================
